---- MODULE Spec2Model ----
(***************************************************************************)
(* A model of change_detection_map.py: the RGB mapping parser, the grid    *)
(* reconciler, the normaliser, the channel composer and the pipeline that  *)
(* main() runs over them.                                                  *)
(*                                                                         *)
(* Rasters are records [shape, data]: shape is the tuple of axis lengths   *)
(* and data the samples in row-major (C) order.  Raw samples are integers; *)
(* normalised samples are IEEE-like numbers: an exact fraction, NaN, +inf  *)
(* or -inf (what numpy's float division produces, rounding aside).         *)
(***************************************************************************)
EXTENDS Integers, Sequences, FiniteSets, TLC

(***************************************************************************)
(* Bounds of the model.                                                    *)
(***************************************************************************)
\* A raster has at most MaxCells samples (rows * cols <= MaxCells).
MaxCells == 2
\* Raw samples of the rasters handed to normalise_arrays alone are drawn
\* from -1..MaxSample.
MaxSample == 2
\* --rgb strings have at most MaxLen characters.
MaxLen == 4
\* Raw samples of the rasters main() loads.
PixelVals == {0, 1}
\* The characters of --rgb strings: the three of the grammar and one other.
Chars == {"a", "b", "0", "x"}

(***************************************************************************)
(* Python values.                                                          *)
(***************************************************************************)
\* Python's None where a string or a bool is expected.
None == "None"
\* Python's None where a list is expected (bbox_list, percentile_range).
NoList == << >>
\* The two values of a Python bool.
PyTrue == "True"
PyFalse == "False"

Returned(v) == [status |-> "return", value |-> v]
Raised(type, msg, arg) == [status |-> "raise", value |-> <<type, msg, arg>>]

(***************************************************************************)
(* Numbers: float64 without the rounding.                                  *)
(***************************************************************************)
Abs(n) == IF n < 0 THEN -n ELSE n

RECURSIVE GCD(_, _)
GCD(a, b) == IF b = 0 THEN a ELSE GCD(b, a % b)

\* The fraction n/d (d # 0) in lowest terms with a positive denominator.
Fin(n, d) ==
    LET g == GCD(Abs(n), Abs(d))
        s == IF d < 0 THEN -1 ELSE 1
    IN  [k |-> "fin", n |-> (s * n) \div g, d |-> Abs(d) \div g]

FromInt(n) == [k |-> "fin", n |-> n, d |-> 1]
NaN == [k |-> "nan", n |-> 0, d |-> 1]
PosInf == [k |-> "inf", n |-> 1, d |-> 1]
NegInf == [k |-> "inf", n |-> -1, d |-> 1]
Zero == FromInt(0)
One == FromInt(1)

IsFin(x) == x.k = "fin"
\* x < y for finite x, y
NumLess(x, y) == x.n * y.d < y.n * x.d

\* IEEE subtraction
NumSub(x, y) ==
    CASE x.k = "nan" \/ y.k = "nan" -> NaN
      [] x.k = "inf" /\ y.k = "inf" -> IF x.n = y.n THEN NaN ELSE x
      [] x.k = "inf" -> x
      [] y.k = "inf" -> [y EXCEPT !.n = -y.n]
      [] OTHER -> Fin(x.n * y.d - y.n * x.d, x.d * y.d)

\* IEEE division: x/0 is +-inf, 0/0 is NaN (numpy warns and carries on)
NumDiv(x, y) ==
    CASE x.k = "nan" \/ y.k = "nan" -> NaN
      [] x.k = "inf" /\ y.k = "inf" -> NaN
      [] x.k = "inf" -> IF y.n < 0 THEN [x EXCEPT !.n = -x.n] ELSE x
      [] y.k = "inf" -> Zero
      [] y.n = 0 -> IF x.n = 0 THEN NaN ELSE IF x.n > 0 THEN PosInf ELSE NegInf
      [] OTHER -> Fin(x.n * y.d, x.d * y.n)

\* numpy's clip of one sample: NaN stays NaN
NumClip(x, lo, hi) ==
    CASE x.k = "nan" -> NaN
      [] x.k = "inf" -> IF x.n > 0 THEN hi ELSE lo
      [] NumLess(x, lo) -> lo
      [] NumLess(hi, x) -> hi
      [] OTHER -> x

(***************************************************************************)
(* Arrays.                                                                 *)
(***************************************************************************)
RECURSIVE Product(_)
Product(s) == IF s = << >> THEN 1 ELSE Head(s) * Product(Tail(s))

RECURSIVE SumSeq(_)
SumSeq(s) == IF s = << >> THEN 0 ELSE Head(s) + SumSeq(Tail(s))

Array(shape, data) == [shape |-> shape, data |-> data]
\* array.clip(lo, hi), sample by sample
array_clip(array, lo, hi) ==
    Array(array.shape, [i \in 1..Len(array.data) |-> NumClip(array.data[i], lo, hi)])

SeqMin(s) == CHOOSE v \in {s[i] : i \in 1..Len(s)} : \A j \in 1..Len(s) : v <= s[j]
SeqMax(s) == CHOOSE v \in {s[i] : i \in 1..Len(s)} : \A j \in 1..Len(s) : v >= s[j]

\* numpy.percentile(a, q), default (linear) interpolation, over the flattened
\* array: the value at position q/100 * (n - 1) of the sorted samples.
Percentile(data, q) ==
    LET sorted == SortSeq(data, <)
        pos == q * (Len(data) - 1)
        lo == pos \div 100
        fr == pos % 100
    IN  IF fr = 0
        THEN FromInt(sorted[lo + 1])
        ELSE Fin(100 * sorted[lo + 1] + fr * (sorted[lo + 2] - sorted[lo + 1]), 100)

(***************************************************************************)
(* normalise_arrays                                                        *)
(***************************************************************************)
\* The normalisation range: the two percentiles, or the minimum and maximum.
min_value(array, percentile_range) ==
    IF percentile_range # NoList
    THEN Percentile(array.data, percentile_range[1])
    ELSE FromInt(SeqMin(array.data))

max_value(array, percentile_range) ==
    IF percentile_range # NoList
    THEN Percentile(array.data, percentile_range[2])
    ELSE FromInt(SeqMax(array.data))

\* line 157: (array - min_value) / max_value - min_value
Scale(v, lo, hi) == NumSub(NumDiv(NumSub(FromInt(v), lo), hi), lo)

\* line 159: "if clip is not None"
ClipRequested(clip) == clip # None

\* lines 140-163
normalise_arrays(array, percentile_range, clip) ==
    LET lo == min_value(array, percentile_range)
        hi == max_value(array, percentile_range)
        normalised_array ==
            Array(array.shape,
                  [i \in 1..Len(array.data) |-> Scale(array.data[i], lo, hi)])
    IN  IF ClipRequested(clip)
        THEN array_clip(normalised_array, Zero, One)
        ELSE normalised_array

(***************************************************************************)
(* get_rgb_map_from_string.  A string is a sequence of characters.         *)
(***************************************************************************)
\* lines 50-66: the loop over the characters, result being the list so far
RECURSIVE ParseColours(_, _)
ParseColours(rest, result) ==
    IF rest = << >>
    THEN Returned(result)
    ELSE LET colour == Head(rest)
         IN  CASE colour = "a" -> ParseColours(Tail(rest), Append(result, "a"))
               [] colour = "b" -> ParseColours(Tail(rest), Append(result, "b"))
               [] colour = "0" -> ParseColours(Tail(rest), Append(result, None))
               [] OTHER -> Raised("ValueError", "Invalid character in --rgb", colour)

\* get_rgb_map_from_string with "<" for "!=" in the length check
get_rgb_map_from_string_lt(rgb_map_str) ==
    IF Len(rgb_map_str) < 3
    THEN Raised("ValueError", "--rgb must be exactly 3 characters long", rgb_map_str)
    ELSE ParseColours(rgb_map_str, << >>)

get_rgb_map_from_string(rgb_map_str) ==
    IF Len(rgb_map_str) # 3
    THEN Raised("ValueError", "--rgb must be exactly 3 characters long", rgb_map_str)
    ELSE ParseColours(rgb_map_str, << >>)

(***************************************************************************)
(* resample_arrays and the collaborator it calls.                          *)
(***************************************************************************)
\* rioxarray's reproject_match for (band, row, col) rasters over one extent:
\* the result has the bands of the source on the grid of the target, each
\* sample taken from the nearest source cell.
reproject_match(source, target) ==
    LET sr == source.shape[2]
        sc == source.shape[3]
        tr == target.shape[2]
        tc == target.shape[3]
        nb == source.shape[1]
        Cell(t) ==
            LET b == (t - 1) \div (tr * tc)
                i == ((t - 1) % (tr * tc)) \div tc
                j == (t - 1) % tc
                si == ((2 * i + 1) * sr) \div (2 * tr)
                sj == ((2 * j + 1) * sc) \div (2 * tc)
            IN  source.data[(b * sr + si) * sc + sj + 1]
    IN  Array(<<nb, tr, tc>>, [t \in 1..(nb * tr * tc) |-> Cell(t)])

\* resample_arrays with ">=" for ">"
resample_arrays_ge(array_a, array_b) ==
    IF SumSeq(array_a.shape) >= SumSeq(array_b.shape)
    THEN <<reproject_match(array_a, array_b), array_b>>
    ELSE <<array_a, reproject_match(array_b, array_a)>>

\* lines 78-85
resample_arrays(array_a, array_b) ==
    IF SumSeq(array_a.shape) > SumSeq(array_b.shape)
    THEN <<reproject_match(array_a, array_b), array_b>>
    ELSE <<array_a, reproject_match(array_b, array_a)>>

(***************************************************************************)
(* img_get_spatial_subset_of_array.  Coordinates are in cell units: the    *)
(* centre of the cell in row i, column j lies at latitude i, longitude j.  *)
(***************************************************************************)
\* lines 103-116: the ring (min_lon, min_lat), (min_lon, max_lat),
\* (max_lon, max_lat), (max_lon, min_lat), closed
geometries(min_lon, max_lon, min_lat, max_lat) ==
    << <<min_lon, min_lat>>, <<min_lon, max_lat>>, <<max_lon, max_lat>>,
       <<max_lon, min_lat>>, <<min_lon, min_lat>> >>

\* rioxarray's clip: the cells whose centre the polygon covers, cropped to
\* them; NoDataInBounds when there are none.
rio_clip(array, ring) ==
    LET lons == {ring[p][1] : p \in 1..Len(ring)}
        lats == {ring[p][2] : p \in 1..Len(ring)}
        nb == array.shape[1]
        nr == array.shape[2]
        nc == array.shape[3]
        west == CHOOSE x \in lons : \A z \in lons : x <= z
        east == CHOOSE x \in lons : \A z \in lons : x >= z
        south == CHOOSE y \in lats : \A z \in lats : y <= z
        north == CHOOSE y \in lats : \A z \in lats : y >= z
        rows == {i \in 1..nr : south <= i /\ i <= north}
        cols == {j \in 1..nc : west <= j /\ j <= east}
        r0 == CHOOSE i \in rows : \A k \in rows : i <= k
        c0 == CHOOSE j \in cols : \A k \in cols : j <= k
        kr == Cardinality(rows)
        kc == Cardinality(cols)
        Cell(t) ==
            LET b == (t - 1) \div (kr * kc)
                i == ((t - 1) % (kr * kc)) \div kc
                j == (t - 1) % kc
            IN  array.data[(b * nr + (r0 - 1 + i)) * nc + (c0 - 1 + j) + 1]
    IN  IF rows = {} \/ cols = {}
        THEN Raised("NoDataInBounds", "No data found in bounds", << >>)
        ELSE Returned(Array(<<nb, kr, kc>>, [t \in 1..(nb * kr * kc) |-> Cell(t)]))

\* lines 88-121
img_get_spatial_subset_of_array(array, min_lon, max_lon, min_lat, max_lat) ==
    rio_clip(array, geometries(min_lon, max_lon, min_lat, max_lat))

(***************************************************************************)
(* sort_arrays_into_rgb_order and make_rgb_stack                           *)
(***************************************************************************)
\* numpy.zeros_like
zeros_like(array) == Array(array.shape, [i \in 1..Len(array.data) |-> Zero])

\* Channel with array_a under both keys (as the docstring's example has it:
\* "R: array_a, G: array_a, B: array_a" for ('a', 'a', 'b'))
Channel_both_a(array_a, array_b, key) ==
    IF key = None
    THEN zeros_like(array_a)
    ELSE [a |-> array_a, b |-> array_a][key]

\* lines 218-224: the channel of one key
Channel(array_a, array_b, key) ==
    IF key = None
    THEN zeros_like(array_a)
    ELSE [a |-> array_a, b |-> array_b][key]

\* lines 214-226
sort_arrays_into_rgb_order(array_a, array_b, rgb_order) ==
    [c \in 1..Len(rgb_order) |-> Channel(array_a, array_b, rgb_order[c])]

RECURSIVE Concat(_)
Concat(seqs) == IF seqs = << >> THEN << >> ELSE Head(seqs) \o Concat(Tail(seqs))

\* numpy.vstack: the arrays (of two axes or more) joined along the first axis;
\* their other axes must agree.
vstack(channels) ==
    LET first == channels[1]
    IN  IF \E c \in 1..Len(channels) : Tail(channels[c].shape) # Tail(first.shape)
        THEN Raised("ValueError", "all the input array dimensions except for the concatenation axis must match exactly", << >>)
        ELSE Returned(Array(
                 <<SumSeq([c \in 1..Len(channels) |-> channels[c].shape[1]])>>
                     \o Tail(first.shape),
                 Concat([c \in 1..Len(channels) |-> channels[c].data])))

\* numpy.squeeze(array, axis=1): drops the second axis, which must have length 1
squeeze_axis1(array) ==
    IF Len(array.shape) < 2
    THEN Raised("AxisError", "axis 1 is out of bounds", << >>)
    ELSE IF array.shape[2] # 1
    THEN Raised("ValueError", "cannot select an axis to squeeze out which has size not equal to one", << >>)
    ELSE Returned(Array(<<array.shape[1]>> \o Tail(Tail(array.shape)), array.data))

\* array.transpose((1, 2, 0)): out[i, j, k] = in[k, i, j], for three axes only
transpose_120(array) ==
    IF Len(array.shape) # 3
    THEN Raised("ValueError", "axes don't match array", << >>)
    ELSE LET nk == array.shape[1]
             ni == array.shape[2]
             nj == array.shape[3]
             Cell(t) ==
                 LET i == (t - 1) \div (nj * nk)
                     j == ((t - 1) % (nj * nk)) \div nk
                     k == (t - 1) % nk
                 IN  array.data[(k * ni + i) * nj + j + 1]
         IN  Returned(Array(<<ni, nj, nk>>, [t \in 1..(ni * nj * nk) |-> Cell(t)]))

\* line 186: "if len(rgb_array) == 4", len being the length of the first axis
HasFourAxes(array) == array.shape[1] = 4

\* lines 178-193
make_rgb_stack(array_a, array_b, rgb_map) ==
    LET channels == sort_arrays_into_rgb_order(array_a, array_b, rgb_map)
        stacked == vstack(channels)
        squeezed ==
            IF stacked.status = "return" /\ HasFourAxes(stacked.value)
            THEN squeeze_axis1(stacked.value)
            ELSE stacked
    IN  IF squeezed.status = "raise"
        THEN squeezed
        ELSE transpose_120(squeezed.value)

(***************************************************************************)
(* The inputs the model draws.                                             *)
(***************************************************************************)
SampleVals == -1..MaxSample
NormVals == {Zero, Fin(1, 2), One}

Grids == {g \in (1..MaxCells) \X (1..MaxCells) : g[1] * g[2] <= MaxCells}

\* The rasters of shape `shape` with samples from `vals`
RastersOf(shape, vals) ==
    {Array(shape, d) : d \in [1..Product(shape) -> vals]}

\* What rioxarray.open_rasterio returns for a single-band file: (band, row, col)
Rasters == UNION {RastersOf(<<1, g[1], g[2]>>, PixelVals) : g \in Grids}

\* Rasters for normalise_arrays on its own
SampleRasters == UNION {RastersOf(<<1, g[1], g[2]>>, SampleVals) : g \in Grids}

\* Normalised rasters for the composer on its own: (row, col) and (1, row, col)
NormShapes == Grids \cup {<<1, g[1], g[2]>> : g \in Grids}
NormRasters(shape) == RastersOf(shape, NormVals)

RgbStrings == UNION {[1..n -> Chars] : n \in 0..MaxLen}
RgbMaps == [1..3 -> {"a", "b", None}]

\* percentile_range arguments: absent, main()'s 2% stretch, two others
PercentileRanges == {NoList, <<2, 98>>, <<0, 50>>, <<25, 100>>}

\* --bbox arguments: absent, or four floats MIN_LON MAX_LON MIN_LAT MAX_LAT
BBoxes == {NoList, <<1, 1, 1, 1>>, <<1, 2, 1, 2>>, <<2, 2, 1, 1>>, <<3, 4, 3, 4>>}

(***************************************************************************)
(* The state.                                                              *)
(***************************************************************************)
VARIABLES
    pc,                      \* where main() is
    bbox_list, stretch,      \* main()'s arguments
    img_a_array, img_b_array, rgb_map,
    img_a_array_normalised, img_b_array_normalised, rgb_array,
    error,                   \* the exception that left main(), or None
    open_handles,            \* the raster files open_rasterio holds open
    shown,                   \* how many composites the renderer was handed
    stages,                  \* history: the stages that ran, in order
    failed,                  \* history: the index in stages of the one that raised
    loaded_shapes,           \* history: the shapes of the two rasters as loaded
    call                     \* a call of one function on its own

locals == <<img_a_array, img_b_array, rgb_map,
            img_a_array_normalised, img_b_array_normalised, rgb_array>>
vars == <<pc, bbox_list, stretch, locals, error, open_handles, shown,
          stages, failed, loaded_shapes, call>>

Unbound == Array(<< >>, << >>)
NoCall == [fn |-> "none", args |-> << >>, result |-> << >>]

(***************************************************************************)
(* main().  The two input files and the --rgb string are drawn where       *)
(* main() first reads them; bbox_list and stretch are drawn by Init.       *)
(***************************************************************************)
Init ==
    /\ pc = "open_a"
    /\ bbox_list \in BBoxes
    /\ stretch \in BOOLEAN
    /\ img_a_array = Unbound
    /\ img_b_array = Unbound
    /\ rgb_map = << >>
    /\ img_a_array_normalised = Unbound
    /\ img_b_array_normalised = Unbound
    /\ rgb_array = Unbound
    /\ error = None
    /\ open_handles = {}
    /\ shown = 0
    /\ stages = << >>
    /\ failed = 0
    /\ loaded_shapes = << << >>, << >> >>
    /\ call = NoCall

\* An exception leaves main(): nothing catches it, no later line runs, and
\* the frame's locals go with it.  Nothing here closes a file.
Fail(exception) ==
    /\ pc' = "error"
    /\ error' = exception
    /\ failed' = Len(stages')
    /\ img_a_array' = Unbound
    /\ img_b_array' = Unbound
    /\ rgb_map' = << >>
    /\ img_a_array_normalised' = Unbound
    /\ img_b_array_normalised' = Unbound
    /\ rgb_array' = Unbound

\* line 246: img_a_array = rioxarray.open_rasterio(img_a_path)
OpenA ==
    /\ pc = "open_a"
    /\ stages' = Append(stages, "load")
    /\ \E file \in Rasters \cup {Unbound} :
          IF file = Unbound
          THEN /\ Fail(<<"RasterioIOError", "No such file or directory", "a">>)
               /\ UNCHANGED <<open_handles, loaded_shapes>>
          ELSE /\ img_a_array' = file
               /\ open_handles' = open_handles \cup {"a"}
               /\ loaded_shapes' = <<file.shape, loaded_shapes[2]>>
               /\ pc' = "open_b"
               /\ UNCHANGED <<img_b_array, rgb_map, img_a_array_normalised,
                              img_b_array_normalised, rgb_array, error, failed>>
    /\ UNCHANGED <<bbox_list, stretch, shown, call>>

\* line 247: img_b_array = rioxarray.open_rasterio(img_b_path)
OpenB ==
    /\ pc = "open_b"
    /\ stages' = Append(stages, "load")
    /\ \E file \in Rasters \cup {Unbound} :
          IF file = Unbound
          THEN /\ Fail(<<"RasterioIOError", "No such file or directory", "b">>)
               /\ UNCHANGED <<open_handles, loaded_shapes>>
          ELSE /\ img_b_array' = file
               /\ open_handles' = open_handles \cup {"b"}
               /\ loaded_shapes' = <<loaded_shapes[1], file.shape>>
               /\ pc' = "parse"
               /\ UNCHANGED <<img_a_array, rgb_map, img_a_array_normalised,
                              img_b_array_normalised, rgb_array, error, failed>>
    /\ UNCHANGED <<bbox_list, stretch, shown, call>>

\* line 251: rgb_map = get_rgb_map_from_string(rgb_map_str)
ParseRgb ==
    /\ pc = "parse"
    /\ stages' = Append(stages, "parse")
    /\ \E rgb_map_str \in RgbStrings :
          LET parsed == get_rgb_map_from_string(rgb_map_str)
          IN  IF parsed.status = "raise"
              THEN Fail(parsed.value)
              ELSE /\ rgb_map' = parsed.value
                   /\ pc' = "reconcile"
                   /\ UNCHANGED <<img_a_array, img_b_array, img_a_array_normalised,
                                  img_b_array_normalised, rgb_array, error, failed>>
    /\ UNCHANGED <<bbox_list, stretch, open_handles, shown, loaded_shapes, call>>

\* Reconcile without the test of line 254: resample_arrays always runs
Reconcile_unconditional ==
    /\ pc = "reconcile"
    /\ stages' = Append(stages, "reconcile")
    /\ \E reprojected \in BOOLEAN :
          IF reprojected
          THEN LET resampled == resample_arrays(img_a_array, img_b_array)
               IN  /\ img_a_array' = resampled[1]
                   /\ img_b_array' = resampled[2]
                   /\ pc' = "subset"
                   /\ UNCHANGED <<rgb_map, img_a_array_normalised,
                                  img_b_array_normalised, rgb_array,
                                  error, failed>>
          ELSE Fail(<<"MissingCRS", "CRS not found", << >> >>)
    /\ UNCHANGED <<bbox_list, stretch, open_handles, shown, loaded_shapes, call>>

\* lines 254-257: resample_arrays, only when the shapes differ.  The
\* reprojection may fail (no coordinate reference system to match).
Reconcile ==
    /\ pc = "reconcile"
    /\ IF img_a_array.shape # img_b_array.shape
       THEN /\ stages' = Append(stages, "reconcile")
            /\ \E reprojected \in BOOLEAN :
                  IF reprojected
                  THEN LET resampled == resample_arrays(img_a_array, img_b_array)
                       IN  /\ img_a_array' = resampled[1]
                           /\ img_b_array' = resampled[2]
                           /\ pc' = "subset"
                           /\ UNCHANGED <<rgb_map, img_a_array_normalised,
                                          img_b_array_normalised, rgb_array,
                                          error, failed>>
                  ELSE Fail(<<"MissingCRS", "CRS not found", << >> >>)
       ELSE /\ pc' = "subset"
            /\ UNCHANGED <<stages, locals, error, failed>>
    /\ UNCHANGED <<bbox_list, stretch, open_handles, shown, loaded_shapes, call>>

\* lines 259-266: both rasters clipped to the bounding box, when there is one
Subset ==
    /\ pc = "subset"
    /\ IF bbox_list # NoList
       THEN LET min_lon == bbox_list[1]
                max_lon == bbox_list[2]
                min_lat == bbox_list[3]
                max_lat == bbox_list[4]
                clipped_a == img_get_spatial_subset_of_array(
                                 img_a_array, min_lon, max_lon, min_lat, max_lat)
                clipped_b == img_get_spatial_subset_of_array(
                                 img_b_array, min_lon, max_lon, min_lat, max_lat)
            IN  /\ stages' = Append(stages, "subset")
                /\ IF clipped_a.status = "raise"
                   THEN Fail(clipped_a.value)
                   ELSE IF clipped_b.status = "raise"
                   THEN Fail(clipped_b.value)
                   ELSE /\ img_a_array' = clipped_a.value
                        /\ img_b_array' = clipped_b.value
                        /\ pc' = "normalise"
                        /\ UNCHANGED <<rgb_map, img_a_array_normalised,
                                       img_b_array_normalised, rgb_array,
                                       error, failed>>
       ELSE /\ pc' = "normalise"
            /\ UNCHANGED <<stages, locals, error, failed>>
    /\ UNCHANGED <<bbox_list, stretch, open_handles, shown, loaded_shapes, call>>

\* lines 268-271
StretchRange(flag) == IF flag THEN <<2, 98>> ELSE NoList

\* lines 268-275: each raster normalised by its own call, clip left at True
Normalise ==
    /\ pc = "normalise"
    /\ stages' = Append(stages, "normalise")
    /\ img_a_array_normalised' =
           normalise_arrays(img_a_array, StretchRange(stretch), PyTrue)
    /\ img_b_array_normalised' =
           normalise_arrays(img_b_array, StretchRange(stretch), PyTrue)
    /\ pc' = "compose"
    /\ UNCHANGED <<img_a_array, img_b_array, rgb_map, rgb_array, error, failed>>
    /\ UNCHANGED <<bbox_list, stretch, open_handles, shown, loaded_shapes, call>>

\* line 278
Compose ==
    /\ pc = "compose"
    /\ stages' = Append(stages, "compose")
    /\ LET stack == make_rgb_stack(img_a_array_normalised,
                                   img_b_array_normalised, rgb_map)
       IN  IF stack.status = "raise"
           THEN Fail(stack.value)
           ELSE /\ rgb_array' = stack.value
                /\ pc' = "render"
                /\ UNCHANGED <<img_a_array, img_b_array, rgb_map,
                               img_a_array_normalised, img_b_array_normalised,
                               error, failed>>
    /\ UNCHANGED <<bbox_list, stretch, open_handles, shown, loaded_shapes, call>>

\* lines 281-282: pyplot.imshow and pyplot.show; the display may fail
Render ==
    /\ pc = "render"
    /\ stages' = Append(stages, "render")
    /\ \E displayed \in BOOLEAN :
          IF displayed
          THEN /\ shown' = shown + 1
               /\ pc' = "done"
               /\ UNCHANGED <<locals, error, failed>>
          ELSE /\ Fail(<<"TclError", "no display", << >> >>)
               /\ UNCHANGED shown
    /\ UNCHANGED <<bbox_list, stretch, open_handles, loaded_shapes, call>>

Next ==
    \/ OpenA
    \/ OpenB
    \/ ParseRgb
    \/ Reconcile
    \/ Subset
    \/ Normalise
    \/ Compose
    \/ Render

Spec == Init /\ [][Next]_vars

(***************************************************************************)
(* The functions called on their own, each on inputs drawn from the sets   *)
(* above: a behaviour is one call, and call holds the function, its         *)
(* arguments and what it gave.                                             *)
(***************************************************************************)
main_state == <<pc, bbox_list, stretch, locals, error, open_handles, shown,
                stages, failed, loaded_shapes>>

CallsInit ==
    /\ Init
    /\ bbox_list = NoList
    /\ stretch = FALSE

\* normalise_arrays has no raise of its own: whatever it computes, it returns
CallNormalise ==
    /\ call.fn = "none"
    /\ \E array \in SampleRasters, percentile_range \in PercentileRanges,
          clip \in {PyTrue, PyFalse} :
          call' = [fn |-> "normalise_arrays",
                   args |-> <<array, percentile_range, clip>>,
                   result |-> Returned(normalise_arrays(array, percentile_range, clip))]
    /\ UNCHANGED main_state

CallParse ==
    /\ call.fn = "none"
    /\ \E rgb_map_str \in RgbStrings :
          call' = [fn |-> "get_rgb_map_from_string",
                   args |-> <<rgb_map_str>>,
                   result |-> get_rgb_map_from_string(rgb_map_str)]
    /\ UNCHANGED main_state

CallSortArrays ==
    /\ call.fn = "none"
    /\ \E shape \in NormShapes, rgb_order \in RgbMaps :
          \E array_a \in NormRasters(shape), array_b \in NormRasters(shape) :
             call' = [fn |-> "sort_arrays_into_rgb_order",
                      args |-> <<array_a, array_b, rgb_order>>,
                      result |-> Returned(sort_arrays_into_rgb_order(
                                              array_a, array_b, rgb_order))]
    /\ UNCHANGED main_state

CallMakeRgbStack ==
    /\ call.fn = "none"
    /\ \E shape \in NormShapes, rgb_order \in RgbMaps :
          \E array_a \in NormRasters(shape), array_b \in NormRasters(shape) :
             call' = [fn |-> "make_rgb_stack",
                      args |-> <<array_a, array_b, rgb_order>>,
                      result |-> make_rgb_stack(array_a, array_b, rgb_order)]
    /\ UNCHANGED main_state

CallsNext ==
    \/ CallNormalise
    \/ CallParse
    \/ CallSortArrays
    \/ CallMakeRgbStack

SpecCalls == CallsInit /\ [][CallsNext]_vars

(***************************************************************************)
(* Properties of normalise_arrays (SpecCalls).                             *)
(***************************************************************************)
NormCall == call.fn = "normalise_arrays"
NormLow == min_value(call.args[1], call.args[2])
NormHigh == max_value(call.args[1], call.args[2])
NormIn(i) == FromInt(call.args[1].data[i])
NormOut(i) == call.result.value.data[i]
NormCells == 1..Len(call.args[1].data)
\* (v - low) / (high - low)
RangeScaled(v, low, high) == NumDiv(NumSub(v, low), NumSub(high, low))
InUnit(x) == IsFin(x) /\ ~NumLess(x, Zero) /\ ~NumLess(One, x)

\* C1: when low < high, normalise_arrays (clip left at its default) gives
\* every sample v the value (v - low) / (high - low), clamped to [0, 1]; a
\* sample equal to low gives 0 and one equal to high gives 1.
C1_ScalesByRange ==
    (NormCall /\ call.args[3] = PyTrue /\ NumLess(NormLow, NormHigh)) =>
        \A i \in NormCells :
            /\ NormOut(i) = NumClip(RangeScaled(NormIn(i), NormLow, NormHigh), Zero, One)
            /\ NormIn(i) = NormLow => NormOut(i) = Zero
            /\ NormIn(i) = NormHigh => NormOut(i) = One

\* C6: when the range collapses (high = low) normalise_arrays raises and
\* returns no array.
C6_DegenerateRangeRaises ==
    (NormCall /\ NormLow = NormHigh) => call.result.status = "raise"

\* C10: with clip true every output sample lies in [0, 1]; with clip false
\* the scaled samples come back unclamped.
C10_ClipFlagControlsClamping ==
    NormCall =>
        /\ call.args[3] = PyTrue => \A i \in NormCells : InUnit(NormOut(i))
        /\ call.args[3] = PyFalse =>
               \A i \in NormCells :
                   NormOut(i) = Scale(call.args[1].data[i], NormLow, NormHigh)

(***************************************************************************)
(* Properties of get_rgb_map_from_string (SpecCalls).                      *)
(***************************************************************************)
ParseCall == call.fn = "get_rgb_map_from_string"
Grammar == {"a", "b", "0"}
InGrammar(str) == Len(str) = 3 /\ \A i \in 1..3 : str[i] \in Grammar
SlotFor(ch) == CASE ch = "a" -> "a" [] ch = "b" -> "b" [] ch = "0" -> None
FirstBad(str) ==
    str[CHOOSE i \in 1..Len(str) :
            str[i] \notin Grammar /\ \A j \in 1..(i - 1) : str[j] \in Grammar]

\* C3: get_rgb_map_from_string returns a mapping exactly for the strings of
\* three characters over {a, b, 0}, slot i being decided by character i
\* alone; every other string raises, and the error for a bad character names
\* the (first) bad character.
C3_ParserAcceptsExactlyGrammar ==
    ParseCall =>
        LET str == call.args[1]
            res == call.result
        IN  /\ InGrammar(str) =>
                 /\ res.status = "return"
                 /\ Len(res.value) = 3
                 /\ \A i \in 1..3 : res.value[i] = SlotFor(str[i])
            /\ ~InGrammar(str) =>
                 /\ res.status = "raise"
                 /\ res.value[1] = "ValueError"
            /\ (Len(str) = 3 /\ ~InGrammar(str)) => res.value[3] = FirstBad(str)

\* A string with an empty slot was parsed.
C3_Witness ==
    /\ ParseCall
    /\ call.args[1] = <<"a", "0", "b">>
    /\ call.result = Returned(<<"a", None, "b">>)

(***************************************************************************)
(* Properties of the composer (SpecCalls).                                 *)
(***************************************************************************)
StackCall == call.fn = "make_rgb_stack"
SortCall == call.fn = "sort_arrays_into_rgb_order"
\* The raster a slot stands for: A, B, or zeros shaped like A
SlotRaster(array_a, array_b, slot) ==
    CASE slot = "a" -> array_a
      [] slot = "b" -> array_b
      [] slot = None -> Array(array_a.shape, [i \in 1..Len(array_a.data) |-> Zero])
\* Band k of a (row, col, band) composite, its samples in row-major order
Band(rgb, k) ==
    [t \in 1..(rgb.shape[1] * rgb.shape[2]) |-> rgb.data[(t - 1) * rgb.shape[3] + k]]

C5_StackShape ==
    StackCall =>
        LET shape == call.args[1].shape
            rows == shape[Len(shape) - 1]
            cols == shape[Len(shape)]
        IN  /\ call.result.status = "return"
            /\ call.result.value.shape = <<rows, cols, 3>>

(***************************************************************************)
(* Properties of main() (Spec).                                            *)
(***************************************************************************)
Normalised == pc \in {"compose", "render", "done"}
Samples(array) == {array.data[i] : i \in 1..Len(array.data)}

\* C2: main() normalises the two rasters with one low/high taken over the
\* samples of both: when that pooled range is not degenerate, the smallest
\* normalised sample over both rasters is 0, the largest is 1, and equal
\* input samples of A and B get equal outputs.
C2_JointNormalisation ==
    LET pooled == Array(<<Len(img_a_array.data) + Len(img_b_array.data)>>,
                        img_a_array.data \o img_b_array.data)
        low == min_value(pooled, StretchRange(stretch))
        high == max_value(pooled, StretchRange(stretch))
        out == Samples(img_a_array_normalised) \cup Samples(img_b_array_normalised)
    IN  (Normalised /\ NumLess(low, high)) =>
            /\ \A x \in out : InUnit(x)
            /\ Zero \in out
            /\ One \in out
            /\ \A i \in 1..Len(img_a_array.data), j \in 1..Len(img_b_array.data) :
                   img_a_array.data[i] = img_b_array.data[j] =>
                       img_a_array_normalised.data[i] = img_b_array_normalised.data[j]

ReconcileStep == pc = "reconcile" /\ pc' = "subset"
LargerSum(x, y) == SumSeq(x.shape) > SumSeq(y.shape)

\* C7 as claimed: with identical shapes both rasters come back unchanged;
\* otherwise only the raster with the larger sum of shape dimensions is
\* resampled, onto the grid of the other, which comes back unchanged, and
\* the two returned shapes are identical.
C7_ResamplesTheLargerSum ==
    [][ReconcileStep =>
          /\ img_a_array'.shape = img_b_array'.shape
          /\ IF img_a_array.shape = img_b_array.shape
             THEN img_a_array' = img_a_array /\ img_b_array' = img_b_array
             ELSE \/ /\ LargerSum(img_a_array, img_b_array)
                     /\ img_a_array' = reproject_match(img_a_array, img_b_array)
                     /\ img_b_array' = img_b_array
                  \/ /\ LargerSum(img_b_array, img_a_array)
                     /\ img_b_array' = reproject_match(img_b_array, img_a_array)
                     /\ img_a_array' = img_a_array]_vars

\* C7 as amended, for single-band rasters (1, rows, cols): with identical
\* shapes both rasters come back unchanged; otherwise exactly one is
\* resampled onto the grid of the other, which comes back unchanged: A when
\* its sum of shape dimensions is strictly the larger, B in every other
\* case (equal sums of different shapes included); the two returned shapes
\* are identical.
C7_ResamplesAOnlyWhenStrictlyLarger ==
    [][ReconcileStep =>
          /\ img_a_array'.shape = img_b_array'.shape
          /\ IF img_a_array.shape = img_b_array.shape
             THEN img_a_array' = img_a_array /\ img_b_array' = img_b_array
             ELSE IF LargerSum(img_a_array, img_b_array)
             THEN /\ img_a_array' = reproject_match(img_a_array, img_b_array)
                  /\ img_a_array'.shape = img_b_array.shape
                  /\ img_b_array' = img_b_array
             ELSE /\ img_b_array' = reproject_match(img_b_array, img_a_array)
                  /\ img_b_array'.shape = img_a_array.shape
                  /\ img_a_array' = img_a_array]_vars

\* Rasters of different shapes with equal sums (1x2 and 2x1) were reconciled:
\* B was put on A's grid.
C7_Witness ==
    /\ pc = "subset"
    /\ stages = <<"load", "load", "parse", "reconcile">>
    /\ loaded_shapes = << <<1, 1, 2>>, <<1, 2, 1>> >>
    /\ img_a_array.shape = <<1, 1, 2>>
    /\ img_b_array.shape = <<1, 1, 2>>

\* The stages of a run that gets as far as the renderer
StagesOfRun ==
    <<"load", "load", "parse">>
        \o (IF loaded_shapes[1] # loaded_shapes[2] THEN <<"reconcile">> ELSE << >>)
        \o (IF bbox_list # NoList THEN <<"subset">> ELSE << >>)
        \o <<"normalise", "compose", "render">>
IsPrefix(s, t) == Len(s) <= Len(t) /\ \A i \in 1..Len(s) : s[i] = t[i]

\* C8: the stages run in the order load, parse, reconcile (only if the
\* shapes differ), subset (only if there is a bounding box), normalise,
\* compose, render, each at most once (load: once per raster); the renderer
\* is handed at most one composite, and only when every stage before it ran
\* and none raised; a stage that raises is the last stage of its run.
C8_StagesInOrder ==
    /\ IsPrefix(stages, StagesOfRun)
    /\ shown <= 1
    /\ (failed # 0) = (pc = "error")
    /\ (failed # 0) = (error # None)
    /\ failed # 0 => failed = Len(stages)
    /\ \A i \in 1..Len(stages) :
          stages[i] = "render" => (i = Len(StagesOfRun) /\ failed \in {0, i})
    /\ shown = 1 => (pc = "done" /\ stages = StagesOfRun /\ failed = 0)
    /\ pc = "done" => shown = 1

\* A run of all seven stages, reconciliation and subsetting included, that
\* ended with the composite shown.
C8_Witness ==
    /\ pc = "done"
    /\ shown = 1
    /\ stages = <<"load", "load", "parse", "reconcile", "subset",
                  "normalise", "compose", "render">>

\* C9: when main() has ended, by a render or by an exception, no raster
\* file is still open.
C9_HandlesReleased ==
    pc \in {"done", "error"} => open_handles = {}

====
